---- MODULE Spec2Model ----
(***************************************************************************)
(* log_analyzer: the parse -> aggregate -> rank pipeline of                *)
(* src/log_analyzer.py (process_line, get_log_records, get_statistics,     *)
(* create_report, main).                                                   *)
(*                                                                         *)
(* Units.  A request time is written in the log with decimals; the model   *)
(* keeps the text of the time field as an integer number of 1/10000 s and  *)
(* a parsed, rounded duration as an integer number of milliseconds.        *)
(* Percentages are integers in thousandths of a percent, mean and median   *)
(* are exact reduced fractions of milliseconds.  Binary floating point     *)
(* error of sums and quotients is not modelled.                            *)
(***************************************************************************)
EXTENDS Integers, Sequences, FiniteSets, TLC

VARIABLES
    config,       \* main: the loaded configuration (ERRORS_LIMIT, REPORT_SIZE)
    pc,           \* position of main
    lines,        \* get_log_records: lines = log_file.readlines()
    i,            \* get_log_records: number of lines the for loop has taken
    errors,       \* get_log_records: errors
    records,      \* get_log_records: records
    dict_url,     \* get_log_records: dict_url, in insertion order
    log_records,  \* main: log_records, the dictionary get_log_records returned
    stat,         \* main: stat, the list get_statistics returned
    report,       \* create_report: what was written to the report file
    exc,          \* the exception that ended the run, with the line that raised it
    calls         \* test_get_statistics: the calls of get_statistics made so far

vars == <<config, pc, lines, i, errors, records, dict_url, log_records, stat,
          report, exc, calls>>

---------------------------------------------------------------------------
(* Bounds of the model *)

MaxLines == 3

MaxReportSize == 2

MaxCalls == 2

---------------------------------------------------------------------------
(* Inputs *)

Urls == {"/a", "/b", "/c"}

\* Texts of the request_time field, in 1/10000 s: "0.0000", "0.0025", "0.0045".
TimeTexts == {0, 25, 45}

\* A log line.  wellformed: whether LOG_RECORD_RE matches it; href and time are
\* the two named groups of the match.
GarbageLine == [wellformed |-> FALSE, href |-> "", time |-> 0]

WellFormedLines == [wellformed : {TRUE}, href : Urls, time : TimeTexts]

LogLines == WellFormedLines \cup {GarbageLine}

SeqsUpTo(S, n) == UNION {[1..k -> S] : k \in 0..n}

\* ERRORS_LIMIT as a fraction num/den, den > 0.  The configuration file is merged
\* over the defaults without validation, so a negative limit can be loaded.
ErrorLimits == {[num |-> -1, den |-> 100], [num |-> 0, den |-> 1],
                [num |-> 1, den |-> 100]}

ReportSizes == 0..MaxReportSize

---------------------------------------------------------------------------
(* process_line *)

None == <<>>

\* LOG_RECORD_RE.match(line): None, or the groupdict of the match.
LOG_RECORD_RE_match(line) ==
    IF line.wellformed THEN <<[href |-> line.href, time |-> line.time]>> ELSE None

\* Time texts x.xxx5 (in 1/10000 s) whose double lies above the decimal tie, so
\* that round(float(text), 3) goes up; the other ties below 0.0200 go down.
TiesAbove == {5, 15, 25, 35, 85, 105, 125, 145, 165, 175}

\* round(float(text), 3), from 1/10000 s to milliseconds.
round3(t) ==
    LET q == t \div 10
        r == t % 10
    IN  IF r < 5 THEN q
        ELSE IF r > 5 THEN q + 1
        ELSE IF t \in TiesAbove THEN q + 1 ELSE q

\* process_line(line, patterns): None or the pair (url, request_time).  The
\* except branch is not modelled as a case of its own: float() accepts every
\* text that \d+\.\d+ matches.
process_line(line) ==
    LET match == LOG_RECORD_RE_match(line)
    IN  IF match = None THEN None
        ELSE <<match[1].href, round3(match[1].time)>>

---------------------------------------------------------------------------
(* get_log_records *)

NoException == [type |-> "none", line |-> 0]

HasKey(d, url) == \E k \in 1..Len(d) : d[k].url = url

\* Mutant of dict_append: dict_url[url] = [request_time], assignment for append.
dict_append_overwrite(d, url, request_time) ==
    IF HasKey(d, url)
    THEN [k \in 1..Len(d) |->
            IF d[k].url = url THEN [url |-> url, value |-> <<request_time>>] ELSE d[k]]
    ELSE Append(d, [url |-> url, value |-> <<request_time>>])

\* dict_url[url].append(request_time) on a defaultdict(list).
dict_append(d, url, request_time) ==
    IF HasKey(d, url)
    THEN [k \in 1..Len(d) |->
            IF d[k].url = url
            THEN [url |-> url, value |-> Append(d[k].value, request_time)]
            ELSE d[k]]
    ELSE Append(d, [url |-> url, value |-> <<request_time>>])

\* errors / records > error_limit, for records # 0.
error_rate_exceeded(e, r, limit) == e * limit.den > limit.num * r

\* with open_fn(...) as log_file: lines = log_file.readlines()
ReadLines ==
    /\ pc = "get_log_records"
    /\ \E content \in SeqsUpTo(LogLines, MaxLines) : lines' = content
    /\ i' = 0
    /\ errors' = 0
    /\ records' = 0
    /\ dict_url' = <<>>
    /\ pc' = "for"
    /\ UNCHANGED <<config, log_records, stat, report, exc, calls>>

\* One iteration of: for line in lines
ForLine ==
    /\ pc = "for"
    /\ i < Len(lines)
    /\ i' = i + 1
    /\ records' = records + 1
    /\ LET res == process_line(lines[i + 1])
       IN  IF Len(res) # 2
           THEN \* url, request_time = None
                /\ exc' = [type |-> "TypeError", line |-> 141]
                /\ pc' = "raised"
                /\ UNCHANGED <<errors, dict_url>>
           ELSE LET url == res[1]
                    request_time == res[2]
                IN  IF url = "" /\ request_time = 0
                    THEN /\ errors' = errors + 1
                         /\ UNCHANGED <<dict_url, exc, pc>>
                    ELSE /\ dict_url' = dict_append(dict_url, url, request_time)
                         /\ UNCHANGED <<errors, exc, pc>>
    /\ UNCHANGED <<config, lines, log_records, stat, report, calls>>

\* Mutant of ErrorCheck: the excess is logged, the raise is missing.
ErrorCheck_logs_only ==
    /\ pc = "for"
    /\ i = Len(lines)
    /\ IF records = 0
       THEN /\ exc' = [type |-> "ZeroDivisionError", line |-> 146]
            /\ pc' = "raised"
            /\ UNCHANGED log_records
       ELSE /\ log_records' = dict_url
            /\ pc' = "get_statistics"
            /\ UNCHANGED exc
    /\ UNCHANGED <<config, lines, i, errors, records, dict_url, stat, report, calls>>

\* if errors / records > error_limit: raise Exception(...); return dict_url
ErrorCheck ==
    /\ pc = "for"
    /\ i = Len(lines)
    /\ IF records = 0
       THEN /\ exc' = [type |-> "ZeroDivisionError", line |-> 146]
            /\ pc' = "raised"
            /\ UNCHANGED log_records
       ELSE IF error_rate_exceeded(errors, records, config.ERRORS_LIMIT)
       THEN /\ exc' = [type |-> "Exception", line |-> 148]
            /\ pc' = "raised"
            /\ UNCHANGED log_records
       ELSE /\ log_records' = dict_url
            /\ pc' = "get_statistics"
            /\ UNCHANGED exc
    /\ UNCHANGED <<config, lines, i, errors, records, dict_url, stat, report, calls>>

---------------------------------------------------------------------------
(* get_statistics *)

RECURSIVE sum(_)
sum(value) == IF value = <<>> THEN 0 ELSE value[1] + sum(Tail(value))

RECURSIVE max(_)
max(value) ==
    IF Len(value) = 1 THEN value[1]
    ELSE LET m == max(Tail(value)) IN IF value[1] >= m THEN value[1] ELSE m

RECURSIVE gcd(_, _)
gcd(a, b) == IF b = 0 THEN a ELSE gcd(b, a % b)

\* The quotient n / d as a reduced fraction, d > 0.
fraction(n, d) ==
    LET g == gcd(n, d)
    IN  IF g = 0 THEN [num |-> 0, den |-> 1] ELSE [num |-> n \div g, den |-> d \div g]

\* statistics.mean(value)
mean(value) == fraction(sum(value), Len(value))

\* statistics.median(value): the middle of sorted(value), the mean of the two
\* middle values when their number is even.
median(value) ==
    LET data == SortSeq(value, LAMBDA a, b : a < b)
        n == Len(data)
    IN  IF n % 2 = 1 THEN fraction(data[(n \div 2) + 1], 1)
        ELSE fraction(data[n \div 2] + data[(n \div 2) + 1], 2)

\* round(x, 3) of the quotient x = n / d (d > 0), in thousandths: to the nearest,
\* an exact tie to the even neighbour.
round_thousandths(n, d) ==
    LET q == n \div d
        r == n % d
    IN  IF 2 * r < d THEN q
        ELSE IF 2 * r > d THEN q + 1
        ELSE IF q % 2 = 0 THEN q ELSE q + 1

\* round((part / whole) * 100, 3), in thousandths of a percent.
percent(part, whole) == round_thousandths(part * 100000, whole)

\* Mutant of overall: time_overall = sum(value); overall_rec = len(value), so
\* the totals are those of the last item.
overall_last_item(recs) ==
    IF recs = <<>> THEN [time |-> 0, rec |-> 0]
    ELSE [time |-> sum(recs[Len(recs)].value), rec |-> Len(recs[Len(recs)].value)]

\* The first loop: time_overall += sum(value); overall_rec += len(value)
RECURSIVE overall(_)
overall(recs) ==
    IF recs = <<>> THEN [time |-> 0, rec |-> 0]
    ELSE LET rest == overall(Tail(recs))
         IN  [time |-> sum(recs[1].value) + rest.time,
              rec |-> Len(recs[1].value) + rest.rec]

\* The dictionary appended to stat for one item of records.
stat_item(item, time_overall, overall_rec) ==
    [url |-> item.url,
     count |-> Len(item.value),
     count_perc |-> percent(Len(item.value), overall_rec),
     time_avg |-> mean(item.value),
     time_max |-> max(item.value),
     time_med |-> median(item.value),
     time_perc |-> percent(sum(item.value), time_overall),
     time_sum |-> sum(item.value)]

\* stat[:report_size]
slice_to(s, n) ==
    IF n >= 0 THEN SubSeq(s, 1, IF n < Len(s) THEN n ELSE Len(s))
    ELSE SubSeq(s, 1, Len(s) + n)

\* get_statistics(records, report_size): the exception raised, if any, and the
\* list returned.  The second loop divides by time_overall and then by
\* overall_rec in its first iteration.
get_statistics(recs, report_size) ==
    LET o == overall(recs)
    IN  IF recs # <<>> /\ o.time = 0
        THEN [raised |-> [type |-> "ZeroDivisionError", line |-> 167], stat |-> <<>>]
        ELSE IF recs # <<>> /\ o.rec = 0
        THEN [raised |-> [type |-> "ZeroDivisionError", line |-> 168], stat |-> <<>>]
        ELSE [raised |-> NoException,
              stat |-> slice_to([k \in 1..Len(recs) |-> stat_item(recs[k], o.time, o.rec)],
                                report_size)]

---------------------------------------------------------------------------
(* main *)

\* stat = get_statistics(log_records, report_size=config['REPORT_SIZE'])
GetStatistics ==
    /\ pc = "get_statistics"
    /\ LET r == get_statistics(log_records, config.REPORT_SIZE)
       IN  IF r.raised # NoException
           THEN /\ exc' = r.raised
                /\ pc' = "raised"
                /\ UNCHANGED stat
           ELSE /\ stat' = r.stat
                /\ pc' = "create_report"
                /\ UNCHANGED exc
    /\ UNCHANGED <<config, lines, i, errors, records, dict_url, log_records, report, calls>>

\* create_report(...): the template with json.dumps(stat) substituted is written.
CreateReport ==
    /\ pc = "create_report"
    /\ report' = <<stat>>
    /\ pc' = "done"
    /\ UNCHANGED <<config, lines, i, errors, records, dict_url, log_records, stat, exc, calls>>

\* The state in which main calls get_log_records, the configuration loaded.
Init ==
    /\ config \in [ERRORS_LIMIT : ErrorLimits, REPORT_SIZE : ReportSizes]
    /\ pc = "get_log_records"
    /\ lines = <<>>
    /\ i = 0
    /\ errors = 0
    /\ records = 0
    /\ dict_url = <<>>
    /\ log_records = <<>>
    /\ stat = <<>>
    /\ report = <<>>
    /\ exc = NoException
    /\ calls = <<>>

Next == ReadLines \/ ForLine \/ ErrorCheck \/ GetStatistics \/ CreateReport

Spec == Init /\ [][Next]_vars

---------------------------------------------------------------------------
(* test_get_statistics: get_statistics called directly on a dictionary *)

\* The dictionary get_log_records builds from a sequence of well-formed lines.
RECURSIVE url_groups(_)
url_groups(content) ==
    IF content = <<>> THEN <<>>
    ELSE LET n == Len(content)
             res == process_line(content[n])
         IN  dict_append(url_groups(SubSeq(content, 1, n - 1)), res[1], res[2])

\* Mutant of CallGetStatistics: the median is taken after value.sort(), which
\* sorts the caller's list in place.
CallGetStatistics_sorting ==
    /\ pc = "test_get_statistics"
    /\ Len(calls) < MaxCalls
    /\ log_records' = [k \in 1..Len(log_records) |->
                         [url |-> log_records[k].url,
                          value |-> SortSeq(log_records[k].value, LAMBDA a, b : a < b)]]
    /\ LET r == get_statistics(log_records, config.REPORT_SIZE)
       IN  calls' = Append(calls, [arg |-> log_records, ret |-> r, after |-> log_records'])
    /\ UNCHANGED <<config, pc, lines, i, errors, records, dict_url, stat, report, exc>>

\* log_analyzer.get_statistics(line, 1): the argument before the call, what the
\* call returned or raised, and the argument after the call.
CallGetStatistics ==
    /\ pc = "test_get_statistics"
    /\ Len(calls) < MaxCalls
    /\ log_records' = log_records
    /\ LET r == get_statistics(log_records, config.REPORT_SIZE)
       IN  calls' = Append(calls, [arg |-> log_records, ret |-> r, after |-> log_records'])
    /\ UNCHANGED <<config, pc, lines, i, errors, records, dict_url, stat, report, exc>>

InitStat ==
    /\ config \in [ERRORS_LIMIT : ErrorLimits, REPORT_SIZE : ReportSizes]
    /\ pc = "test_get_statistics"
    /\ lines = <<>>
    /\ i = 0
    /\ errors = 0
    /\ records = 0
    /\ dict_url = <<>>
    /\ \E content \in SeqsUpTo(WellFormedLines, MaxLines) : log_records = url_groups(content)
    /\ stat = <<>>
    /\ report = <<>>
    /\ exc = NoException
    /\ calls = <<>>

NextStat == CallGetStatistics

SpecStat == InitStat /\ [][NextStat]_vars

---------------------------------------------------------------------------
(* Properties *)

\* Whether get_log_records has ended, by a return or by an exception.
AggregationEnded == pc \notin {"get_log_records", "for"}

\* Whether get_log_records returned its dictionary.
AggregationReturned ==
    pc \in {"get_statistics", "create_report", "done"}
        \/ (pc = "raised" /\ exc.line \in {167, 168})

\* Whether get_statistics returned its list.
StatisticsReturned == pc \in {"create_report", "done"}

\* Whether the configured error limit is a fraction in [0, 1].
LimitInRange ==
    /\ config.ERRORS_LIMIT.num >= 0
    /\ config.ERRORS_LIMIT.num <= config.ERRORS_LIMIT.den

\* The number of lines of a file the parser misses.
Misses(content) ==
    Cardinality({k \in 1..Len(content) : process_line(content[k]) = None})

\* The sum of f[x] over the finite set S.
RECURSIVE Total(_, _)
Total(f, S) ==
    IF S = {} THEN 0
    ELSE LET x == CHOOSE y \in S : TRUE IN f[x] + Total(f, S \ {x})

SumOf(value) == Total(value, DOMAIN value)

GlobalCount(recs) == Total([k \in 1..Len(recs) |-> Len(recs[k].value)], 1..Len(recs))

GlobalTime(recs) == Total([k \in 1..Len(recs) |-> SumOf(recs[k].value)], 1..Len(recs))

\* The value list stored for url, empty when url is no key.
Stored(d, url) ==
    IF HasKey(d, url) THEN d[CHOOSE k \in 1..Len(d) : d[k].url = url].value ELSE <<>>

\* C1: when the parser misses the line the loop takes, the loop counts it
\* (errors and records go up by one), leaves every URL group as it is, raises
\* nothing and goes on with the next line.
C1_MissIsCounted ==
    [][(LimitInRange /\ pc = "for" /\ i < Len(lines)
          /\ process_line(lines[i + 1]) = None)
        => /\ errors' = errors + 1
           /\ records' = records + 1
           /\ dict_url' = dict_url
           /\ exc' = NoException
           /\ pc' = "for"
           /\ i' = i + 1]_vars

\* C2: for a non-empty input and an error limit in [0, 1], aggregation ends with
\* the error-rate exception exactly when the share of missed lines among all
\* lines is strictly greater than the limit.
C2_FailsIffRateExceeded ==
    (AggregationEnded /\ lines # <<>> /\ LimitInRange)
        => ((exc = [type |-> "Exception", line |-> 148])
              <=> (Misses(lines) * config.ERRORS_LIMIT.den
                     > config.ERRORS_LIMIT.num * Len(lines)))

\* C3: aggregation of a file with no lines returns an empty summary (no URL
\* group, no line counted, no error counted) and raises nothing.
C3_EmptyInputReturnsEmpty ==
    (AggregationEnded /\ lines = <<>> /\ LimitInRange)
        => /\ exc = NoException
           /\ AggregationReturned
           /\ log_records = <<>>
           /\ records = 0
           /\ errors = 0

\* C4: with positive global time, get_statistics returns min(limit, number of
\* URLs) records in descending order of time_sum, and no URL left out has a
\* greater time_sum than one returned.
C4_RankedByTimeSum ==
    (StatisticsReturned /\ GlobalTime(log_records) > 0 /\ LimitInRange)
        => /\ Len(stat) = IF config.REPORT_SIZE < Len(log_records)
                          THEN config.REPORT_SIZE ELSE Len(log_records)
           /\ \A j, k \in 1..Len(stat) : j < k => stat[j].time_sum >= stat[k].time_sum
           /\ \A k \in 1..Len(log_records) :
                (\A j \in 1..Len(stat) : stat[j].url # log_records[k].url)
                    => \A j \in 1..Len(stat) :
                         stat[j].time_sum >= SumOf(log_records[k].value)

\* C5: when the global time or the global count of the dictionary passed to
\* get_statistics is zero, the call returns an empty list and raises nothing.
C5_ZeroTotalsReturnEmpty ==
    (AggregationReturned /\ pc # "get_statistics" /\ LimitInRange
        /\ (GlobalTime(log_records) = 0 \/ GlobalCount(log_records) = 0))
        => /\ StatisticsReturned
           /\ exc = NoException
           /\ stat = <<>>

\* Whether p is the quotient part / whole in percent, rounded to 3 places.
IsPercent(p, part, whole) ==
    LET d == p * whole - 100000 * part
    IN  2 * (IF d < 0 THEN -d ELSE d) <= whole

\* The values of value in ascending order.
Ascending(value) ==
    CHOOSE s \in [DOMAIN value -> {value[k] : k \in DOMAIN value}] :
        /\ \A j, k \in DOMAIN s : j < k => s[j] <= s[k]
        /\ \A x \in {value[k] : k \in DOMAIN value} :
             Cardinality({k \in DOMAIN s : s[k] = x})
                 = Cardinality({k \in DOMAIN value : value[k] = x})

\* Whether the fraction m is the median of value.
IsMedian(m, value) ==
    LET s == Ascending(value)
        n == Len(value)
    IN  /\ m.den > 0
        /\ IF n % 2 = 1 THEN m.num = s[(n + 1) \div 2] * m.den
           ELSE 2 * m.num = (s[n \div 2] + s[(n \div 2) + 1]) * m.den

\* Whether the record row holds the statistics of item among all of recs.
IsStatOf(row, item, recs) ==
    /\ row.url = item.url
    /\ row.count = Cardinality(DOMAIN item.value)
    /\ row.time_sum = SumOf(item.value)
    /\ \E k \in DOMAIN item.value : row.time_max = item.value[k]
    /\ \A k \in DOMAIN item.value : item.value[k] <= row.time_max
    /\ IsMedian(row.time_med, item.value)
    /\ row.time_avg.den > 0
    /\ row.time_avg.num * Len(item.value) = SumOf(item.value) * row.time_avg.den
    /\ IsPercent(row.count_perc, row.count, GlobalCount(recs))
    /\ IsPercent(row.time_perc, row.time_sum, GlobalTime(recs))

\* C6: with positive global time and a limit that does not truncate,
\* get_statistics returns one record per URL, whose count, sum, maximum, median
\* and mean are those of the URL's durations and whose two percentages are the
\* URL's shares of the totals over all URLs; a single URL has both at 100.
C6_RecordsMatchReference ==
    (StatisticsReturned /\ GlobalTime(log_records) > 0
        /\ config.REPORT_SIZE >= Len(log_records))
        => /\ Len(stat) = Len(log_records)
           /\ \A k \in 1..Len(log_records) :
                /\ IsStatOf(stat[k], log_records[k], log_records)
                /\ \A j \in 1..Len(stat) : stat[j].url = log_records[k].url => j = k
           /\ Len(log_records) = 1
                => stat[1].count_perc = 100000 /\ stat[1].time_perc = 100000

C6_Witness ==
    /\ pc = "done"
    /\ Len(log_records) = 2
    /\ config.REPORT_SIZE = 2
    /\ Len(stat) = 2
    /\ Len(log_records[1].value) = 2
    /\ stat[1].time_perc # 100000
    /\ stat[1].time_perc # stat[1].count_perc

\* C7: statistics are computed only after every line was taken and the error
\* check passed, the caller sees no dictionary before that, and a run that an
\* exception ended has neither statistics nor a report.
C7_WholeBatch ==
    /\ pc \in {"get_statistics", "create_report", "done"}
         => /\ i = Len(lines)
            /\ records = Len(lines)
            /\ records # 0
            /\ ~ error_rate_exceeded(errors, records, config.ERRORS_LIMIT)
            /\ exc = NoException
            /\ log_records = dict_url
    /\ pc \in {"get_log_records", "for"}
         => log_records = <<>> /\ stat = <<>> /\ report = <<>>
    /\ exc # NoException <=> pc = "raised"
    /\ pc = "raised" => stat = <<>> /\ report = <<>>
    /\ report # <<>> => pc = "done" /\ report = <<stat>>

C7_Witness ==
    /\ pc = "raised"
    /\ exc = [type |-> "Exception", line |-> 148]
    /\ i = Len(lines)
    /\ Len(lines) = 2
    /\ Len(dict_url) = 2
    /\ stat = <<>>
    /\ report = <<>>

\* The durations of the lines of content that parse with url, in file order.
DurationsOf(content, url) ==
    LET hits == SelectSeq(content,
                          LAMBDA l : process_line(l) # None /\ process_line(l)[1] = url)
    IN  [k \in 1..Len(hits) |-> process_line(hits[k])[2]]

\* C8: when aggregation has returned, the list stored for a URL is the sequence
\* of the durations of the parsed lines with that URL, in file order, no URL is
\* a key twice, and a URL is a key only if some line parsed with it.
C8_GroupsAreSubsequences ==
    AggregationReturned
        => /\ \A url \in Urls : Stored(log_records, url) = DurationsOf(lines, url)
           /\ \A j, k \in 1..Len(log_records) :
                log_records[j].url = log_records[k].url => j = k
           /\ \A k \in 1..Len(log_records) :
                /\ log_records[k].url \in Urls
                /\ \E n \in 1..Len(lines) :
                     /\ process_line(lines[n]) # None
                     /\ process_line(lines[n])[1] = log_records[k].url

C8_Witness ==
    /\ pc = "get_statistics"
    /\ Len(lines) = 3
    /\ lines[1].href = "/b" /\ lines[2].href = "/a" /\ lines[3].href = "/b"
    /\ lines[1].time # lines[3].time
    /\ Len(log_records) = 2
    /\ Len(Stored(log_records, "/b")) = 2

C10_CounterInvariant ==
    LimitInRange
        => /\ records = errors + GlobalCount(dict_url)
           /\ errors <= records
           /\ \A n \in 1..i :
                (lines[n].wellformed /\ lines[n].time = 0)
                    => Stored(dict_url, lines[n].href) # <<>>

====
